---- MODULE Spec2Model ----
(***************************************************************************)
(* Model of rbd::MultiBody (src/src/MultiBody.h): the kinematic tree of a   *)
(* multibody system.  The object owns seven parallel vectors, two          *)
(* id -> index hash maps and two aggregate counters; after construction it *)
(* is only read, through an unchecked accessor family (operator[], find)   *)
(* and a checked one (at).                                                  *)
(*                                                                         *)
(* C++ indices are 0-based; a vector is a TLA+ sequence, so the element at *)
(* C++ index i is v[i + 1].                                                 *)
(***************************************************************************)
EXTENDS Integers, Sequences, FiniteSets, TLC

VARIABLES
    args,         \* the seven constructor arguments
    phase,        \* "init" | "constructed" | "failed" | "crashed"
    error,        \* error kind of a failed construction, "none" otherwise
    bodies_, joints_, pred_, succ_, parent_, Xfrom_, Xto_,
    bodyId2Ind_, jointId2Ind_,
    nrParams_, nrDof_,
    call          \* the last accessor call: [op, arg, res]

members == <<bodies_, joints_, pred_, succ_, parent_, Xfrom_, Xto_,
             bodyId2Ind_, jointId2Ind_, nrParams_, nrDof_>>

vars == <<args, phase, error, bodies_, joints_, pred_, succ_, parent_,
          Xfrom_, Xto_, bodyId2Ind_, jointId2Ind_, nrParams_, nrDof_, call>>

----------------------------------------------------------------------------
(* Bounds and input universes *)

MaxLen == 2

INT_MAX == (2^30 - 1) * 2 + 1
INT_MIN == -INT_MAX - 1

Max(a, b) == IF a < b THEN b ELSE a

BodyIds == {10, 20}

JointIds == {100, 101}

\* (params, dof) of the joint kinds used as inputs; dof <= params.
JointKinds == {<<1, 1>>, <<4, 3>>}

BodySet == {[id |-> i] : i \in BodyIds}

JointSet == {[id |-> i, params |-> k[1], dof |-> k[2]] : i \in JointIds, k \in JointKinds}

\* sva::PTransform is opaque: a transform is a tagged value.
TransformSet == {[X |-> "A"], [X |-> "B"]}

SeqsUpTo(S, n) == UNION {[1..k -> S] : k \in 0..n}

\* Canonical contents: unique ids, a chain rooted at body 0, root sentinel -1.
CanonBodies(n) == [i \in 1..n |-> [id |-> 10 * i]]

CanonJoints(n) == [j \in 1..n |-> [id |-> 100 + (j - 1), params |-> 1, dof |-> 1]]

CanonPred(n) == [j \in 1..n |-> Max(j - 2, 0)]

CanonSucc(n) == [j \in 1..n |-> j - 1]

CanonParent(n) == [b \in 1..n |-> b - 2]

CanonX(n, a, b) == [j \in 1..n |-> IF j % 2 = 1 THEN [X |-> a] ELSE [X |-> b]]

MkArgs(b, j, p, s, par, xf, xt) ==
    [bodies |-> b, joints |-> j, pred |-> p, succ |-> s, parent |-> par,
     Xfrom |-> xf, Xto |-> xt]

\* Bodies vary freely (duplicate ids included), the rest is canonical.
BodyInputs ==
    {MkArgs(b, CanonJoints(Len(b)), CanonPred(Len(b)), CanonSucc(Len(b)),
            CanonParent(Len(b)), CanonX(Len(b), "A", "B"), CanonX(Len(b), "B", "A")) :
        b \in SeqsUpTo(BodySet, MaxLen)}

\* Joints vary freely (duplicate ids included), the rest is canonical.
JointInputs ==
    {MkArgs(CanonBodies(Len(j)), j, CanonPred(Len(j)), CanonSucc(Len(j)),
            CanonParent(Len(j)), CanonX(Len(j), "A", "B"), CanonX(Len(j), "B", "A")) :
        j \in SeqsUpTo(JointSet, MaxLen)}

\* Connectivity varies: any parent array, two pred and two succ arrays.
ConnInputs ==
    UNION {
        {MkArgs(CanonBodies(n), CanonJoints(n), p, s, par,
                CanonX(n, "A", "B"), CanonX(n, "B", "A")) :
            par \in [1..n -> -1..(n - 1)],
            p \in {CanonPred(n), [j \in 1..n |-> n - 1]},
            s \in {CanonSucc(n), [j \in 1..n |-> n - j]}} :
        n \in 0..MaxLen}

\* Transforms vary.
TransformInputs ==
    UNION {
        {MkArgs(CanonBodies(n), CanonJoints(n), CanonPred(n), CanonSucc(n),
                CanonParent(n), xf, xt) :
            xf \in [1..n -> TransformSet], xt \in [1..n -> TransformSet]} :
        n \in 0..MaxLen}

\* The seven lengths vary independently.
LengthInputs ==
    {MkArgs(CanonBodies(l[1]), CanonJoints(l[2]), CanonPred(l[3]), CanonSucc(l[4]),
            CanonParent(l[5]), CanonX(l[6], "A", "B"), CanonX(l[7], "B", "A")) :
        l \in [1..7 -> 0..MaxLen]}

Inputs == BodyInputs \cup JointInputs \cup ConnInputs \cup TransformInputs \cup LengthInputs

\* Index arguments: the int range ends, negatives, every valid index, and
\* the two values past the end.
IndexArgs == {INT_MIN, -1, INT_MAX} \cup (0..(MaxLen + 1))

IdArgs == BodyIds \cup JointIds \cup {10 * i : i \in 1..MaxLen}
              \cup {100 + j : j \in 0..(MaxLen - 1)} \cup {-1, 0}

----------------------------------------------------------------------------
(* Outcomes of a call *)

Ret(v) == [kind |-> "return", val |-> v]

Throw(e) == [kind |-> "throw", val |-> e]

Crash == [kind |-> "crash", val |-> "SIGSEGV"]

----------------------------------------------------------------------------
(* int -> std::size_t conversion.  A size_t is 64 bits wide; it is kept as  *)
(* four 16-bit limbs, most significant first, so that the conversion of a  *)
(* negative int (sign extension, i.e. num + 2^64) is computed, not assumed. *)

LimbBase == 2^16

ToSizeT(num) ==
    LET ext == IF num < 0 THEN LimbBase - 1 ELSE 0
    IN  <<ext, ext, (num \div LimbBase) % LimbBase, num % LimbBase>>

\* a < b on size_t values
SizeLess(a, b) ==
    \E k \in 1..4 : a[k] < b[k] /\ \A m \in 1..(k - 1) : a[m] = b[m]

\* Outcomes a build can produce for a read outside the storage: the read
\* faults, or it yields whatever lies at that address.
Undefined(garbage) == {Crash} \cup {Ret(g) : g \in garbage}

\* std::vector::operator[](size_type n): *(begin + n), no check.
VecSubscript(v, num, garbage) ==
    IF SizeLess(ToSizeT(num), ToSizeT(Len(v)))
    THEN {Ret(v[num + 1])}
    ELSE Undefined(garbage)

\* at() with the bound test written n > size(): the index equal to the
\* length slips through and reads past the end.
VecAt_offByOne(v, num) ==
    IF SizeLess(ToSizeT(Len(v)), ToSizeT(num))
    THEN {Throw("std::out_of_range")}
    ELSE IF num + 1 \in DOMAIN v THEN {Ret(v[num + 1])} ELSE {Crash}

\* at() with the bound test made on the signed int: a negative index
\* passes the test and reads before the storage.
VecAt_signedCompare(v, num) ==
    IF num >= Len(v)
    THEN {Throw("std::out_of_range")}
    ELSE IF num + 1 \in DOMAIN v THEN {Ret(v[num + 1])} ELSE {Crash}

\* std::vector::at(size_type n): throws std::out_of_range when n >= size().
VecAt(v, num) ==
    IF ~SizeLess(ToSizeT(num), ToSizeT(Len(v)))
    THEN {Throw("std::out_of_range")}
    ELSE {Ret(v[num + 1])}

\* unordered_map::find(id)->second: find returns end() for an absent key,
\* and dereferencing end() is undefined.
MapFindSecond(m, id, garbage) ==
    IF id \in DOMAIN m THEN {Ret(m[id])} ELSE Undefined(garbage)

\* at() replaced by operator[] semantics: an absent key yields a
\* value-initialised index.
MapAt_defaultValue(m, id) ==
    IF id \in DOMAIN m THEN {Ret(m[id])} ELSE {Ret(0)}

\* unordered_map::at(id): throws std::out_of_range for an absent key.
MapAt(m, id) ==
    IF id \in DOMAIN m THEN {Ret(m[id])} ELSE {Throw("std::out_of_range")}

GarbageInt == {-1, 12345}

GarbageBody == {[id |-> g] : g \in GarbageInt}

GarbageJoint == {[id |-> g, params |-> 0, dof |-> 0] : g \in GarbageInt}

GarbageTransform == {[X |-> "?"]}

----------------------------------------------------------------------------
(* Construction *)

EmptyMap == [x \in {} |-> 0]

\* The length validation without the test of Xto.
LengthsConsistent_noXto(a) ==
    /\ Len(a.bodies) = Len(a.parent)
    /\ Len(a.joints) = Len(a.pred)
    /\ Len(a.joints) = Len(a.succ)
    /\ Len(a.joints) = Len(a.Xfrom)

\* Preconditions (1) and (2) of the constructor.
LengthsConsistent(a) ==
    /\ Len(a.bodies) = Len(a.parent)
    /\ Len(a.joints) = Len(a.pred)
    /\ Len(a.joints) = Len(a.succ)
    /\ Len(a.joints) = Len(a.Xfrom)
    /\ Len(a.joints) = Len(a.Xto)

\* The id -> index table after the first k elements were entered in order;
\* a later element with the same id replaces the earlier entry.
RECURSIVE BuildId2Ind(_, _)
BuildId2Ind(s, k) ==
    IF k = 0 THEN EmptyMap
    ELSE LET m == BuildId2Ind(s, k - 1)
         IN  [x \in DOMAIN m \cup {s[k].id} |-> IF x = s[k].id THEN k - 1 ELSE m[x]]

RECURSIVE SumParams(_, _)
SumParams(s, k) == IF k = 0 THEN 0 ELSE SumParams(s, k - 1) + s[k].params

RECURSIVE SumDof(_, _)
SumDof(s, k) == IF k = 0 THEN 0 ELSE SumDof(s, k - 1) + s[k].dof

Init ==
    /\ args \in Inputs
    /\ phase = "init"
    /\ error = "none"
    /\ bodies_ = <<>> /\ joints_ = <<>>
    /\ pred_ = <<>> /\ succ_ = <<>> /\ parent_ = <<>>
    /\ Xfrom_ = <<>> /\ Xto_ = <<>>
    /\ bodyId2Ind_ = EmptyMap /\ jointId2Ind_ = EmptyMap
    /\ nrParams_ = 0 /\ nrDof_ = 0
    /\ call = [op |-> "none", arg |-> 0, res |-> Ret(0)]

\* MultiBody(bodies, joints, pred, succ, parent, Xfrom, Xto)
Construct ==
    /\ phase = "init"
    /\ IF LengthsConsistent(args)
       THEN /\ bodies_' = args.bodies
            /\ joints_' = args.joints
            /\ pred_' = args.pred
            /\ succ_' = args.succ
            /\ parent_' = args.parent
            /\ Xfrom_' = args.Xfrom
            /\ Xto_' = args.Xto
            /\ bodyId2Ind_' = BuildId2Ind(args.bodies, Len(args.bodies))
            /\ jointId2Ind_' = BuildId2Ind(args.joints, Len(args.joints))
            /\ nrParams_' = SumParams(args.joints, Len(args.joints))
            /\ nrDof_' = SumDof(args.joints, Len(args.joints))
            /\ phase' = "constructed"
            /\ error' = "none"
       ELSE /\ phase' = "failed"
            /\ error' = "StructuralMismatch"
            /\ UNCHANGED members
    /\ UNCHANGED <<args, call>>

----------------------------------------------------------------------------
(* Accessors.  Every accessor is a const member: it records its outcome   *)
(* and leaves the object alone; an outcome "crash" ends the process.       *)

Respond(op, arg, r) ==
    /\ call' = [op |-> op, arg |-> arg, res |-> r]
    /\ phase' = IF r.kind = "crash" THEN "crashed" ELSE phase
    /\ UNCHANGED <<args, error, members>>

nrBodies == phase = "constructed" /\ Respond("nrBodies", 0, Ret(Len(bodies_)))

nrJoints == phase = "constructed" /\ Respond("nrJoints", 0, Ret(Len(joints_)))

bodies == phase = "constructed" /\ Respond("bodies", 0, Ret(bodies_))

body(num) ==
    /\ phase = "constructed"
    /\ \E r \in VecSubscript(bodies_, num, GarbageBody) : Respond("body", num, r)

joints == phase = "constructed" /\ Respond("joints", 0, Ret(joints_))

joint(num) ==
    /\ phase = "constructed"
    /\ \E r \in VecSubscript(joints_, num, GarbageJoint) : Respond("joint", num, r)

predecessors == phase = "constructed" /\ Respond("predecessors", 0, Ret(pred_))

predecessor(num) ==
    /\ phase = "constructed"
    /\ \E r \in VecSubscript(pred_, num, GarbageInt) : Respond("predecessor", num, r)

successors == phase = "constructed" /\ Respond("successors", 0, Ret(succ_))

\* successor reading the predecessor array.
successor_readsPred(num) ==
    /\ phase = "constructed"
    /\ \E r \in VecSubscript(pred_, num, GarbageInt) : Respond("successor", num, r)

successor(num) ==
    /\ phase = "constructed"
    /\ \E r \in VecSubscript(succ_, num, GarbageInt) : Respond("successor", num, r)

parents == phase = "constructed" /\ Respond("parents", 0, Ret(parent_))

parent(num) ==
    /\ phase = "constructed"
    /\ \E r \in VecSubscript(parent_, num, GarbageInt) : Respond("parent", num, r)

transformsFrom == phase = "constructed" /\ Respond("transformsFrom", 0, Ret(Xfrom_))

transformFrom(num) ==
    /\ phase = "constructed"
    /\ \E r \in VecSubscript(Xfrom_, num, GarbageTransform) : Respond("transformFrom", num, r)

transformsTo == phase = "constructed" /\ Respond("transformsTo", 0, Ret(Xto_))

transformTo(num) ==
    /\ phase = "constructed"
    /\ \E r \in VecSubscript(Xto_, num, GarbageTransform) : Respond("transformTo", num, r)

bodyIndexById(id) ==
    /\ phase = "constructed"
    /\ \E r \in MapFindSecond(bodyId2Ind_, id, GarbageInt) : Respond("bodyIndexById", id, r)

jointIndexById(id) ==
    /\ phase = "constructed"
    /\ \E r \in MapFindSecond(jointId2Ind_, id, GarbageInt) : Respond("jointIndexById", id, r)

\* nrParams returning the DoF counter.
nrParams_returnsDof == phase = "constructed" /\ Respond("nrParams", 0, Ret(nrDof_))

nrParams == phase = "constructed" /\ Respond("nrParams", 0, Ret(nrParams_))

nrDof == phase = "constructed" /\ Respond("nrDof", 0, Ret(nrDof_))

sBody(num) ==
    /\ phase = "constructed"
    /\ \E r \in VecAt(bodies_, num) : Respond("sBody", num, r)

sJoint(num) ==
    /\ phase = "constructed"
    /\ \E r \in VecAt(joints_, num) : Respond("sJoint", num, r)

sPredecessor(num) ==
    /\ phase = "constructed"
    /\ \E r \in VecAt(pred_, num) : Respond("sPredecessor", num, r)

sSuccessor(num) ==
    /\ phase = "constructed"
    /\ \E r \in VecAt(succ_, num) : Respond("sSuccessor", num, r)

sParent(num) ==
    /\ phase = "constructed"
    /\ \E r \in VecAt(parent_, num) : Respond("sParent", num, r)

sTransformFrom(num) ==
    /\ phase = "constructed"
    /\ \E r \in VecAt(Xfrom_, num) : Respond("sTransformFrom", num, r)

sTransformTo(num) ==
    /\ phase = "constructed"
    /\ \E r \in VecAt(Xto_, num) : Respond("sTransformTo", num, r)

\* sBodyIndexById looking the id up in the joint table.
sBodyIndexById_jointTable(id) ==
    /\ phase = "constructed"
    /\ \E r \in MapAt(jointId2Ind_, id) : Respond("sBodyIndexById", id, r)

\* sBodyIndexById written with operator[] on a non-const map: an absent id
\* is inserted with index 0.
sBodyIndexById_inserting(id) ==
    /\ phase = "constructed"
    /\ call' = [op |-> "sBodyIndexById", arg |-> id,
                res |-> IF id \in DOMAIN bodyId2Ind_ THEN Ret(bodyId2Ind_[id]) ELSE Ret(0)]
    /\ bodyId2Ind_' = [x \in DOMAIN bodyId2Ind_ \cup {id} |->
                          IF x \in DOMAIN bodyId2Ind_ THEN bodyId2Ind_[x] ELSE 0]
    /\ UNCHANGED <<args, phase, error, bodies_, joints_, pred_, succ_, parent_,
                   Xfrom_, Xto_, jointId2Ind_, nrParams_, nrDof_>>

sBodyIndexById(id) ==
    /\ phase = "constructed"
    /\ \E r \in MapAt(bodyId2Ind_, id) : Respond("sBodyIndexById", id, r)

sJointIndexById(id) ==
    /\ phase = "constructed"
    /\ \E r \in MapAt(jointId2Ind_, id) : Respond("sJointIndexById", id, r)

Next ==
    \/ Construct
    \/ nrBodies
    \/ nrJoints
    \/ bodies
    \/ joints
    \/ predecessors
    \/ successors
    \/ parents
    \/ transformsFrom
    \/ transformsTo
    \/ nrParams
    \/ nrDof
    \/ \E num \in IndexArgs : body(num)
    \/ \E num \in IndexArgs : joint(num)
    \/ \E num \in IndexArgs : predecessor(num)
    \/ \E num \in IndexArgs : successor(num)
    \/ \E num \in IndexArgs : parent(num)
    \/ \E num \in IndexArgs : transformFrom(num)
    \/ \E num \in IndexArgs : transformTo(num)
    \/ \E id \in IdArgs : bodyIndexById(id)
    \/ \E id \in IdArgs : jointIndexById(id)
    \/ \E num \in IndexArgs : sBody(num)
    \/ \E num \in IndexArgs : sJoint(num)
    \/ \E num \in IndexArgs : sPredecessor(num)
    \/ \E num \in IndexArgs : sSuccessor(num)
    \/ \E num \in IndexArgs : sParent(num)
    \/ \E num \in IndexArgs : sTransformFrom(num)
    \/ \E num \in IndexArgs : sTransformTo(num)
    \/ \E id \in IdArgs : sBodyIndexById(id)
    \/ \E id \in IdArgs : sJointIndexById(id)

Spec == Init /\ [][Next]_vars

----------------------------------------------------------------------------
(* Vocabulary of the properties *)

Built == phase \in {"constructed", "crashed"}

OutOfRange == Throw("std::out_of_range")

RECURSIVE SeqSum(_)
SeqSum(s) == IF s = <<>> THEN 0 ELSE Head(s) + SeqSum(Tail(s))

ParamsOf(js) == [k \in 1..Len(js) |-> js[k].params]

DofOf(js) == [k \in 1..Len(js) |-> js[k].dof]

UniqueIds(s) == \A i, k \in 1..Len(s) : s[i].id = s[k].id => i = k

HasId(s, x) == \E i \in 1..Len(s) : s[i].id = x

CheckedOps == {"sBody", "sJoint", "sPredecessor", "sSuccessor", "sParent",
               "sTransformFrom", "sTransformTo"}

UncheckedOps == {"body", "joint", "predecessor", "successor", "parent",
                 "transformFrom", "transformTo"}

\* The sequence an indexed accessor, checked or unchecked, reads.
FieldOf(op) ==
    CASE op \in {"body", "sBody"} -> bodies_
      [] op \in {"joint", "sJoint"} -> joints_
      [] op \in {"predecessor", "sPredecessor"} -> pred_
      [] op \in {"successor", "sSuccessor"} -> succ_
      [] op \in {"parent", "sParent"} -> parent_
      [] op \in {"transformFrom", "sTransformFrom"} -> Xfrom_
      [] op \in {"transformTo", "sTransformTo"} -> Xto_

InRange(op, i) == 0 <= i /\ i < Len(FieldOf(op))

----------------------------------------------------------------------------
(* Properties *)

\* C1: in every constructed MultiBody nrParams() returns the sum of params
\* over the joint list and nrDof() the sum of dof, and the two counters
\* keep these values after any sequence of accessor calls.
C1_AggregateCounts ==
    Built =>
        /\ nrParams_ = SeqSum(ParamsOf(joints_))
        /\ nrDof_ = SeqSum(DofOf(joints_))
        /\ call.op = "nrParams" => call.res = Ret(SeqSum(ParamsOf(args.joints)))
        /\ call.op = "nrDof" => call.res = Ret(SeqSum(DofOf(args.joints)))

C1_Witness ==
    /\ phase = "constructed"
    /\ Len(joints_) = 2
    /\ call.op = "nrParams"
    /\ call.res = Ret(5)
    /\ nrDof_ = 4

\* C2: for a valid construction (consistent lengths, ids unique within the
\* collection) the checked lookup of the id of the body at input position i
\* returns i, and the checked lookup of the id of the joint at input
\* position j returns j.
C2_IdResolvesToInputIndex ==
    Built =>
        /\ UniqueIds(args.bodies) =>
              /\ \A i \in 1..Len(args.bodies) :
                    MapAt(bodyId2Ind_, args.bodies[i].id) = {Ret(i - 1)}
              /\ call.op = "sBodyIndexById" =>
                    \A i \in 1..Len(args.bodies) :
                        args.bodies[i].id = call.arg => call.res = Ret(i - 1)
        /\ UniqueIds(args.joints) =>
              /\ \A i \in 1..Len(args.joints) :
                    MapAt(jointId2Ind_, args.joints[i].id) = {Ret(i - 1)}
              /\ call.op = "sJointIndexById" =>
                    \A i \in 1..Len(args.joints) :
                        args.joints[i].id = call.arg => call.res = Ret(i - 1)

C2_Witness ==
    /\ phase = "constructed"
    /\ UniqueIds(args.bodies)
    /\ Len(args.bodies) = 2
    /\ args.bodies[2].id = 20
    /\ call.op = "sBodyIndexById"
    /\ call.arg = 20
    /\ call.res = Ret(1)

\* C3: a construction whose sequence lengths are inconsistent (bodies vs
\* parent, or joints, pred, succ, Xfrom, Xto not all of one length) fails
\* with StructuralMismatch, and no tree exists afterwards: the members stay
\* empty and no accessor can be called.
C3_LengthMismatchFails ==
    (/\ phase # "init"
     /\ \/ Len(args.bodies) # Len(args.parent)
        \/ \E n \in {Len(args.pred), Len(args.succ), Len(args.Xfrom), Len(args.Xto)} :
              n # Len(args.joints))
    =>
        /\ phase = "failed"
        /\ error = "StructuralMismatch"
        /\ call.op = "none"
        /\ bodies_ = <<>> /\ joints_ = <<>> /\ pred_ = <<>> /\ succ_ = <<>>
        /\ parent_ = <<>> /\ Xfrom_ = <<>> /\ Xto_ = <<>>
        /\ DOMAIN bodyId2Ind_ = {} /\ DOMAIN jointId2Ind_ = {}

C3_Witness ==
    /\ phase = "failed"
    /\ error = "StructuralMismatch"
    /\ Len(args.bodies) = 2
    /\ Len(args.parent) = 1
    /\ Len(args.joints) = Len(args.Xto)

\* C4: a checked indexed accessor called with an index greater than or
\* equal to the length of the sequence it reads (the boundary index = length
\* included) throws the out-of-range error and returns no value.
C4_IndexPastEndThrows ==
    (call.op \in CheckedOps /\ call.arg >= Len(FieldOf(call.op)))
        => call.res = OutOfRange

C4_Witness ==
    /\ call.op = "sBody"
    /\ Len(bodies_) = 2
    /\ call.arg = Len(bodies_)
    /\ call.res = OutOfRange

\* C5: for an index within range the unchecked and the checked accessor of
\* the same field give the same result, in both directions, and for an id
\* present in the table the unchecked and the checked id lookup agree.
C5_CheckedEqualsUnchecked ==
    /\ (call.op \in UncheckedOps /\ InRange(call.op, call.arg))
          => VecAt(FieldOf(call.op), call.arg) = {call.res}
    /\ (call.op \in CheckedOps /\ InRange(call.op, call.arg))
          => VecSubscript(FieldOf(call.op), call.arg, {}) = {call.res}
    /\ (call.op = "bodyIndexById" /\ call.arg \in DOMAIN bodyId2Ind_)
          => MapAt(bodyId2Ind_, call.arg) = {call.res}
    /\ (call.op = "sBodyIndexById" /\ call.arg \in DOMAIN bodyId2Ind_)
          => MapFindSecond(bodyId2Ind_, call.arg, {}) = {call.res}
    /\ (call.op = "jointIndexById" /\ call.arg \in DOMAIN jointId2Ind_)
          => MapAt(jointId2Ind_, call.arg) = {call.res}
    /\ (call.op = "sJointIndexById" /\ call.arg \in DOMAIN jointId2Ind_)
          => MapFindSecond(jointId2Ind_, call.arg, {}) = {call.res}

C5_Witness ==
    /\ phase = "constructed"
    /\ call.op = "successor"
    /\ call.arg = 1
    /\ pred_ = <<0, 0>>
    /\ succ_ = <<0, 1>>
    /\ call.res = Ret(1)

\* C6: the checked lookup of an id that no body of the tree has throws
\* (the unknown-id failure is std::out_of_range), likewise the checked
\* lookup of an id that no joint has; neither returns an index.
C6_UnknownIdThrows ==
    /\ (call.op = "sBodyIndexById" /\ ~HasId(bodies_, call.arg))
          => call.res = OutOfRange
    /\ (call.op = "sJointIndexById" /\ ~HasId(joints_, call.arg))
          => call.res = OutOfRange

C6_Witness ==
    /\ phase = "constructed"
    /\ Len(joints_) = 2
    /\ call.op = "sJointIndexById"
    /\ call.arg = 10
    /\ HasId(bodies_, 10)
    /\ call.res = OutOfRange

\* C7: construction fails when two bodies or two joints share an id, so in
\* every constructed tree the ids are unique and each id -> index table has
\* as many entries as its sequence has elements.
C7_DuplicateIdsRejected ==
    Built =>
        /\ UniqueIds(bodies_)
        /\ UniqueIds(joints_)
        /\ Cardinality(DOMAIN bodyId2Ind_) = Len(bodies_)
        /\ Cardinality(DOMAIN jointId2Ind_) = Len(joints_)

\* C8: once the tree is constructed no accessor call, returning, throwing
\* or faulting, changes any member: the seven sequences, the two tables and
\* the two counters keep their values.
C8_AccessorsDoNotMutate ==
    [][phase = "constructed" => members' = members]_vars

C8_Witness ==
    /\ phase = "constructed"
    /\ call.op = "sBodyIndexById"
    /\ call.res = OutOfRange
    /\ Len(bodies_) = 2
    /\ bodies_ = args.bodies
    /\ DOMAIN bodyId2Ind_ = {10, 20}

\* Following parent from body b reaches the root (index 0) in at most k steps.
RECURSIVE ReachesRoot(_, _)
ReachesRoot(b, k) ==
    IF b = 0 THEN TRUE
    ELSE IF k = 0 \/ b < 0 \/ b >= Len(parent_) THEN FALSE
    ELSE ReachesRoot(parent_[b + 1], k - 1)

\* C9: every constructed MultiBody is a rooted tree: from every body the
\* parent chain reaches body 0 within nrBodies steps, joint 0 is the only
\* joint whose successor is the root, and in index order every joint's
\* predecessor body is the successor of an earlier joint.
C9_RootedTree ==
    Built =>
        /\ \A b \in 0..(Len(bodies_) - 1) : ReachesRoot(b, Len(bodies_))
        /\ \A j \in 1..Len(succ_) : (succ_[j] = 0) = (j = 1)
        /\ \A j \in 2..Len(pred_) : \E k \in 1..(j - 1) : succ_[k] = pred_[j]

\* C10: a checked indexed accessor called with a negative index throws the
\* out-of-range error; a checked accessor returns an element exactly when
\* 0 <= index < length.
C10_NegativeIndexThrows ==
    call.op \in CheckedOps =>
        /\ call.arg < 0 => call.res = OutOfRange
        /\ (call.res.kind = "return") = InRange(call.op, call.arg)
        /\ call.res.kind \in {"return", "throw"}

C10_Witness ==
    /\ call.op = "sParent"
    /\ Len(parent_) = 2
    /\ call.arg = INT_MIN
    /\ call.res = OutOfRange

====
